---- MODULE Spec2Model ----
(***************************************************************************)
(* Verification model of the story API (Elysia + Mongoose):                *)
(*   - sanitizeString, validateImageFile, errorHandler, simpleRateLimit    *)
(*   - the route handlers GET /api, GET /api/:id, GET /api/:id/image,      *)
(*     POST /api, PUT /api/:id, DELETE /api/:id, each store call (await)   *)
(*     being one step, so that requests interleave between store calls.    *)
(*                                                                         *)
(* Text is a sequence of runs [ch, n]: n copies of the character ch.       *)
(* Only the filler character "x" occurs with n > 1; this keeps a text of   *)
(* 10,001 characters a value of one run, at the true length.               *)
(***************************************************************************)
EXTENDS Integers, Sequences, FiniteSets, TLC

VARIABLES
    sanInput, sanOnce, sanTwice, sanPc,     \* sanitizeString applied once and twice
    query, page, limit, skip, listPc,       \* GET /api: the query and its page arithmetic
    rateLimitStore, now, maxRequests, windowMs,   \* simpleRateLimit
    winStart, winCalls, lastCall,           \* history of the rate limiter's calls
    stories, nextId,                        \* the StoryData collection and the next _id
    requests,                               \* the requests in flight, one per slot
    received,                               \* the number of requests received so far
    resp,                                   \* the response the last step sent, if any
    createdFrom, touched, deleted           \* history: who created, changed, deleted an id

sanVars == <<sanInput, sanOnce, sanTwice, sanPc>>
listVars == <<query, page, limit, skip, listPc>>
rateVars == <<rateLimitStore, now, maxRequests, windowMs, winStart, winCalls, lastCall>>
crudVars == <<stories, nextId, requests, received, resp, createdFrom, touched, deleted>>
vars == <<sanVars, listVars, rateVars, crudVars>>

(***************************************************************************)
(* Text                                                                    *)
(***************************************************************************)
\* a text of single characters
S(chars) == [i \in 1..Len(chars) |-> [ch |-> chars[i], n |-> 1]]

\* k copies of the filler character
Fill(k) == IF k = 0 THEN <<>> ELSE <<[ch |-> "x", n |-> k]>>

RECURSIVE length(_)
\* String.prototype.length
length(t) == IF t = <<>> THEN 0 ELSE t[1].n + length(Tail(t))

RECURSIVE Flatten(_)
Flatten(parts) == IF parts = <<>> THEN <<>> ELSE parts[1] \o Flatten(Tail(parts))

\* adjacent filler runs are one run: each string has one representation
RECURSIVE Canon(_)
Canon(t) ==
    IF Len(t) < 2 THEN t
    ELSE IF t[1].ch = "x" /\ t[2].ch = "x"
         THEN Canon(<<[ch |-> "x", n |-> t[1].n + t[2].n]>> \o SubSeq(t, 3, Len(t)))
         ELSE <<t[1]>> \o Canon(Tail(t))

IsSpace(c) == c \in {" ", "\n"}

\* \w of the regular expression
IsWord(c) == c \in {"s", "c", "r", "i", "p", "t", "S", "C", "R", "I", "P", "T", "a", "x"}

\* the i flag: case-insensitive comparison
Lower(c) ==
    CASE c = "S" -> "s" [] c = "C" -> "c" [] c = "R" -> "r"
      [] c = "I" -> "i" [] c = "P" -> "p" [] c = "T" -> "t"
      [] OTHER -> c

RECURSIVE trimStart(_)
trimStart(t) == IF t # <<>> /\ IsSpace(t[1].ch) THEN trimStart(Tail(t)) ELSE t

RECURSIVE trimEnd(_)
trimEnd(t) ==
    IF t # <<>> /\ IsSpace(t[Len(t)].ch) THEN trimEnd(SubSeq(t, 1, Len(t) - 1)) ELSE t

\* String.prototype.trim
trim(t) == trimEnd(trimStart(t))

OpenTag == <<"<", "s", "c", "r", "i", "p", "t">>
CloseTag == <<"<", "/", "s", "c", "r", "i", "p", "t", ">">>

\* the literal lit matches t at position i, ignoring case
LitAt(t, i, lit) ==
    /\ i + Len(lit) - 1 <= Len(t)
    /\ \A k \in 1..Len(lit) : t[i + k - 1].n = 1 /\ Lower(t[i + k - 1].ch) = lit[k]

\* \b after the t of "<script": the next character is no word character
WordBoundary(t, j) == j > Len(t) \/ ~IsWord(t[j].ch)

RECURSIVE ScanBody(_, _)
\* [^<]*(?:(?!<\/script>)<[^<]*)*<\/script> from position j: the position
\* after the match, 0 when there is none. [^<]* and the group never give a
\* character back with success, so the scan is deterministic.
ScanBody(t, j) ==
    IF j > Len(t) THEN 0
    ELSE IF t[j].ch # "<" THEN ScanBody(t, j + 1)
    ELSE IF LitAt(t, j, CloseTag) THEN j + Len(CloseTag)
    ELSE ScanBody(t, j + 1)

\* the whole pattern at position i: the position after the match, or 0
MatchEnd(t, i) ==
    IF LitAt(t, i, OpenTag) /\ WordBoundary(t, i + Len(OpenTag))
    THEN ScanBody(t, i + Len(OpenTag))
    ELSE 0

RECURSIVE replaceScript(_, _)
\* .replace(/.../gi, ""): one left-to-right pass, matches do not overlap
replaceScript(t, i) ==
    IF i > Len(t) THEN <<>>
    ELSE LET e == MatchEnd(t, i)
         IN IF e # 0 THEN replaceScript(t, e)
            ELSE <<t[i]>> \o replaceScript(t, i + 1)

sanitizeString(str) == Canon(replaceScript(trim(str), 1))

\* a <script ... </script> sequence occurs in t
HasScript(t) == \E i \in 1..Len(t) : MatchEnd(t, i) # 0

Surrounded(t) == t # <<>> /\ (IsSpace(t[1].ch) \/ IsSpace(t[Len(t)].ch))

(***************************************************************************)
(* GET /api: page, limit and skip                                          *)
(***************************************************************************)
\* a JavaScript number: an integer or NaN
Num(k) == [nan |-> FALSE, v |-> k]
NaN == [nan |-> TRUE, v |-> 0]

\* Math.max and Math.min: NaN when an argument is NaN
mathMax(a, b) == IF a.nan \/ b.nan THEN NaN ELSE IF a.v >= b.v THEN a ELSE b
mathMin(a, b) == IF a.nan \/ b.nan THEN NaN ELSE IF a.v <= b.v THEN a ELSE b

DecDigits == {"0", "1", "2", "3", "4", "5", "6", "7", "8", "9"}
HexDigits == DecDigits \cup {"a", "b", "c", "d", "e", "f"}

DigitVal(c) ==
    CASE c = "0" -> 0 [] c = "1" -> 1 [] c = "2" -> 2 [] c = "3" -> 3
      [] c = "4" -> 4 [] c = "5" -> 5 [] c = "6" -> 6 [] c = "7" -> 7
      [] c = "8" -> 8 [] c = "9" -> 9 [] c = "a" -> 10 [] c = "b" -> 11
      [] c = "c" -> 12 [] c = "d" -> 13 [] c = "e" -> 14 [] c = "f" -> 15

RECURSIVE DigitsValue(_, _, _, _)
\* the value of the longest prefix of t that is digits of the radix, after acc
DigitsValue(t, digits, radix, acc) ==
    IF t # <<>> /\ t[1].ch \in digits
    THEN DigitsValue(Tail(t), digits, radix, acc * radix + DigitVal(t[1].ch))
    ELSE acc

\* parseInt(string) with no radix argument: leading whitespace, a sign, a 0x
\* prefix, then the longest prefix of digits; NaN when there is no digit
parseInt(str) ==
    LET t == trimStart(str)
        neg == t # <<>> /\ t[1].ch = "-"
        u == IF t # <<>> /\ t[1].ch \in {"-", "+"} THEN Tail(t) ELSE t
        hex == Len(u) >= 2 /\ u[1].ch = "0" /\ u[2].ch = "x"
        w == IF hex THEN SubSeq(u, 3, Len(u)) ELSE u
        digits == IF hex THEN HexDigits ELSE DecDigits
        radix == IF hex THEN 16 ELSE 10
    IN IF w = <<>> \/ w[1].ch \notin digits THEN NaN
       ELSE Num((IF neg THEN -1 ELSE 1) * DigitsValue(w, digits, radix, 0))

\* a query parameter: absent, or its text
Absent == [given |-> FALSE, text |-> <<>>]
Given(t) == [given |-> TRUE, text |-> t]

\* param || dflt: an absent parameter and the empty string are falsy
OrDefault(param, dflt) == IF param.given /\ param.text # <<>> THEN param.text ELSE dflt

pageOf(q) == mathMax(Num(1), parseInt(OrDefault(q.page, S(<<"1">>))))
limitOf(q) == mathMin(Num(50), mathMax(Num(1), parseInt(OrDefault(q.limit, S(<<"1", "0">>)))))
skipOf(p, l) == IF p.nan \/ l.nan THEN NaN ELSE Num((p.v - 1) * l.v)

MaxQueryLen == 3
QueryChars == {"0", "1", "5", "-", " ", "a", "x"}
QueryTexts == UNION { { S(p) : p \in [1..k -> QueryChars] } : k \in 0..MaxQueryLen }
QueryParams == {Absent} \cup { Given(t) : t \in QueryTexts }

(***************************************************************************)
(* Constants, form data and files                                          *)
(***************************************************************************)
MAX_DB_FILE_SIZE == 10 * 1024 * 1024
ALLOWED_IMAGE_TYPES == {"image/jpeg", "image/png", "image/gif", "image/webp"}
MAX_TITLE_LENGTH == 200
MAX_CONTENT_LENGTH == 10000
MAX_WRITER_LENGTH == 100

\* an optional value: null or undefined, or the value
Null == <<>>
Some(x) == <<x>>

\* formData.get("image"): no part, or a File
NoFile == Null
File(type, size, data) == Some([type |-> type, size |-> size, data |-> data, name |-> "f"])

\* "<script></script>"
ScriptElement == S(OpenTag \o <<">">> \o CloseTag)

Blank == ScriptElement \o S(<<" ">>) \o ScriptElement

\* the multipart form of POST /api and PUT /api/:id; a field that is absent
\* reads as "" like an empty one: (formData.get(..) as string) || ""
Form(title, writter, content, image, removeImage) ==
    [title |-> title, writter |-> writter, story_content |-> content,
     image |-> image, removeImage |-> removeImage]

NoForm == Form(<<>>, <<>>, <<>>, NoFile, FALSE)

\* forms that can pass the handlers' checks
GoodForms ==
    << Form(S(<<"a">>), S(<<"a">>), S(<<"a">>), NoFile, FALSE),
      Form(S(<<"b">>), S(<<"a">>), S(<<"a">>), File("image/jpeg", MAX_DB_FILE_SIZE, "d1"), FALSE),
      Form(ScriptElement \o S(<<" ", "a">>), S(<<" ", "a">>), Blank, NoFile, FALSE),
      Form(Blank, S(<<"a">>), S(<<"a">>), NoFile, FALSE),
      Form(S(<<"a">>), S(<<"a">>), S(<<"a">>), File("image/png", 1, "d2"), TRUE),
      Form(S(<<"b">>), S(<<"a">>), S(<<"a">>), File("application/pdf", 1, "d3"), TRUE) >>

\* forms with a missing field, an oversize field or a file that is refused
\* or ignored, alone and together
BadForms ==
    LET a == S(<<"a">>)
        pdf == File("application/pdf", 1, "d3")
        huge == File("image/png", MAX_DB_FILE_SIZE + 1, "d4")
    IN << Form(<<>>, a, a, NoFile, FALSE),
         Form(a, <<>>, Fill(MAX_CONTENT_LENGTH + 1), NoFile, FALSE),
         Form(Fill(MAX_TITLE_LENGTH + 1), a, <<>>, NoFile, FALSE),
         Form(S(<<" ">>), Fill(MAX_WRITER_LENGTH + 1), a, pdf, FALSE),
         Form(Fill(MAX_TITLE_LENGTH + 1), a, a, NoFile, FALSE),
         Form(a, Fill(MAX_WRITER_LENGTH + 1), a, NoFile, FALSE),
         Form(a, a, Fill(MAX_CONTENT_LENGTH + 1), huge, FALSE),
         Form(a, a, a, pdf, FALSE),
         Form(a, a, a, huge, FALSE),
         Form(a, a, a, File("image/png", 0, "d0"), FALSE) >>

Forms == GoodForms \o BadForms

\* a request names its form by its place in Forms; a request without a
\* body names none
FormIds == DOMAIN Forms
NoFormId == 0
FormOf(k) == IF k \in FormIds THEN Forms[k] ELSE NoForm

\* imageFile && imageFile.size > 0
HasFile(form) == form.image # NoFile /\ form.image[1].size > 0

\* a validator without the allow-list
TypeAllowedAny(file) == TRUE

\* the allow-list test of validateImageFile
TypeAllowed(file) == file.type \in ALLOWED_IMAGE_TYPES

\* the size test of validateImageFile
TooLarge(file) == file.size > MAX_DB_FILE_SIZE

\* messages are sequences of words
InvalidFileType == <<"Invalid", "file", "type.">>
FileTooLarge == <<"File", "size", "too", "large.">>

\* validateImageFile: the error message, or null
validateImageFile(file) ==
    IF ~TypeAllowed(file) THEN Some(InvalidFileType)
    ELSE IF TooLarge(file) THEN Some(FileTooLarge)
    ELSE Null

processImageForDB(file) ==
    [data |-> file.data, contentType |-> file.type, filename |-> file.name, size |-> file.size]

(***************************************************************************)
(* errorHandler                                                            *)
(***************************************************************************)
\* String.prototype.includes on messages
includes(message, needle) ==
    \E i \in 0..(Len(message) - Len(needle)) :
        \A k \in 1..Len(needle) : message[i + k] = needle[k]

\* the errors the store and the handlers throw: error.name, error.message
ValidationError(path) ==
    [name |-> "ValidationError",
     message |-> <<"StoryData", "validation", "failed:", path, "is", "required">>]
CastError ==
    [name |-> "CastError",
     message |-> <<"Cast", "to", "ObjectId", "failed", "for", "value">>]
TypeError == [name |-> "TypeError", message |-> <<"null", "is", "not", "an", "object">>]

InvalidIdFormat == <<"Invalid", "ID", "format">>
InternalServerError == <<"Internal", "server", "error">>

errorHandler(error) ==
    IF includes(error.message, <<"validation">>)
    THEN [status |-> 400, message |-> <<"Validation", "error:">> \o error.message]
    ELSE IF includes(error.message, <<"Cast", "to", "ObjectId", "failed">>)
    THEN [status |-> 400, message |-> InvalidIdFormat]
    ELSE [status |-> 500, message |-> InternalServerError]

(***************************************************************************)
(* The StoryData model (StorySchema) and its collection                    *)
(***************************************************************************)
MaxIds == 2         \* the store assigns the ids 1..MaxIds
NumSlots == 2       \* requests in flight at a time
MaxRequests == 3    \* requests received in a run

BadId == 0          \* an id that is no ObjectId
Ids == 1..MaxIds
Slots == 1..NumSlots

\* a schema without trim
castDocNoTrim(doc) == doc

\* the setters of the schema: trim on title and writter, also on query filters
castDoc(doc) == [doc EXCEPT !.title = trim(@), !.writter = trim(@)]

\* the validators of the schema on a cast document: the first failing path, or null
validateDoc(doc) ==
    IF doc.title = <<>> \/ length(doc.title) > 200 THEN Some("title")
    ELSE IF doc.writter = <<>> \/ length(doc.writter) > 100 THEN Some("writter")
    ELSE IF doc.story_content = <<>> \/ length(doc.story_content) > 10000
    THEN Some("story_content")
    ELSE Null

\* a lookup that does not cast its filter
findOneTitleUncast(coll, title) == \E i \in DOMAIN coll : coll[i].title = title

\* StoryData.findOne({ title }): some story has the title
findOneTitle(coll, title) == \E i \in DOMAIN coll : coll[i].title = trim(title)

\* StoryData.findOne({ title, _id: { $ne: id } })
findOneTitleNotId(coll, title, id) ==
    \E i \in DOMAIN coll : i # id /\ coll[i].title = trim(title)

\* the _id the store gives a new document
newId(next) == next

\* story.save() of a valid document
insertDoc(coll, id, doc) == [i \in DOMAIN coll \cup {id} |-> IF i = id THEN doc ELSE coll[i]]

\* findByIdAndUpdate(id, update) where the document exists
updateDoc(coll, id, update) == [coll EXCEPT ![id] = update]

\* a delete that removes nothing
deleteDocKeeps(coll, id) == coll

\* findByIdAndDelete(id)
deleteDoc(coll, id) == [i \in DOMAIN coll \ {id} |-> coll[i]]

\* the story as the responses show it: no image bytes
responseStory(id, doc) ==
    [id |-> id, title |-> doc.title, writter |-> doc.writter,
     story_content |-> doc.story_content, hasImage |-> doc.image # Null]

(***************************************************************************)
(* Requests and responses                                                  *)
(***************************************************************************)
\* a request in flight: its route, the store call it waits for, its id and
\* form, existingStory.image (image0) and imageData; held is history: whether
\* its title lookup ran ("" before) and found the title held ("yes", "no")
Idle == [route |-> "", pc |-> "idle", id |-> BadId, form |-> NoFormId,
         image0 |-> Null, imageData |-> Null, held |-> ""]

\* a request that answers before its first store call returns
Fresh(k) == [Idle EXCEPT !.form = k]

NoResp == [route |-> "", stage |-> "", id |-> BadId, status |-> 0, message |-> <<>>,
           form |-> NoFormId, data |-> Null, held |-> "", before |-> <<>>,
           error |-> Null]

\* the response of the route at a stage of its handler to request r; before
\* is the collection before the step
Response(route, stage, id, reply, r, data) ==
    [route |-> route, stage |-> stage, id |-> id, status |-> reply.status,
     message |-> reply.message, form |-> r.form, data |-> data, held |-> r.held,
     before |-> stories, error |-> Null]

\* .onError: the response errorHandler makes of an error thrown at a stage;
\* error is history, the error that was thrown
Failure(route, stage, id, error, r) ==
    [Response(route, stage, id, errorHandler(error), r, Null) EXCEPT !.error = Some(error)]

\* history: the stories of the collection that hold the title, as stored
HeldBy(coll, title) == { i \in DOMAIN coll : coll[i].title = trim(title) }

Reply(status, message) == [status |-> status, message |-> message]

StoryNotFound == <<"Story", "not", "found">>
ImageNotFound == <<"Image", "not", "found">>
TitleRequired == <<"Title", "is", "required">>
WriterRequired == <<"Writer", "name", "is", "required">>
ContentRequired == <<"Story", "content", "is", "required">>
TitleTooLong == <<"Title", "must", "be", "less", "than", "200", "characters">>
WriterTooLong == <<"Writer", "name", "must", "be", "less", "than", "100", "characters">>
ContentTooLong == <<"Story", "content", "must", "be", "less", "than", "10000", "characters">>
TitleExists == <<"A", "story", "with", "this", "title", "already", "exists">>
AllRequired == <<"All", "fields", "are", "required">>
FieldsTooLong == <<"One", "or", "more", "fields", "exceed", "maximum", "length">>
OtherTitleExists == <<"Another", "story", "with", "this", "title", "already", "exists">>
StoryCreated == <<"Story", "created", "successfully">>
StoryUpdated == <<"Story", "updated", "successfully">>
StoryDeleted == <<"Story", "deleted", "successfully">>
StoryFetched == <<"Story", "fetched", "successfully">>

\* the three text fields after sanitizeString
sanitizeFields(form) ==
    [title |-> sanitizeString(form.title), writter |-> sanitizeString(form.writter),
     story_content |-> sanitizeString(form.story_content)]

\* sanitizeFields of every form, computed once
SanitizedForms == [k \in FormIds \cup {NoFormId} |-> sanitizeFields(FormOf(k))]

sanitized(k) == SanitizedForms[k]

\* POST /api, "Validate required fields": the first failing check, or null
createRequired(f) ==
    IF f.title = <<>> THEN Some(TitleRequired)
    ELSE IF f.writter = <<>> THEN Some(WriterRequired)
    ELSE IF f.story_content = <<>> THEN Some(ContentRequired)
    ELSE Null

\* POST /api, "Validate field lengths"
createLengths(f) ==
    IF length(f.title) > MAX_TITLE_LENGTH THEN Some(TitleTooLong)
    ELSE IF length(f.writter) > MAX_WRITER_LENGTH THEN Some(WriterTooLong)
    ELSE IF length(f.story_content) > MAX_CONTENT_LENGTH THEN Some(ContentTooLong)
    ELSE Null

\* POST /api, the image part: the validation error, or null
createImage(form) == IF HasFile(form) THEN validateImageFile(form.image[1]) ELSE Null

\* the length checks ahead of the required-field checks
createChecksLengthsFirst(k) ==
    LET f == sanitized(k)
    IN IF createLengths(f) # Null THEN createLengths(f)
       ELSE IF createRequired(f) # Null THEN createRequired(f)
       ELSE createImage(Forms[k])

\* POST /api before its first store call: the 400 reply, or null
createChecks(k) ==
    LET f == sanitized(k)
    IN IF createRequired(f) # Null THEN createRequired(f)
       ELSE IF createLengths(f) # Null THEN createLengths(f)
       ELSE createImage(Forms[k])

\* PUT /api/:id, "Validate required fields"
updateRequired(f) ==
    IF f.title = <<>> \/ f.writter = <<>> \/ f.story_content = <<>>
    THEN Some(AllRequired) ELSE Null

\* PUT /api/:id, "Validate field lengths"
updateLengths(f) ==
    IF \/ length(f.title) > MAX_TITLE_LENGTH
       \/ length(f.writter) > MAX_WRITER_LENGTH
       \/ length(f.story_content) > MAX_CONTENT_LENGTH
    THEN Some(FieldsTooLong) ELSE Null

\* PUT /api/:id between findById and the title lookup: the 400 reply, or null
updateChecks(k) ==
    LET f == sanitized(k)
    IN IF updateRequired(f) # Null THEN updateRequired(f) ELSE updateLengths(f)

\* PUT /api/:id, "Handle image upload": the image to write; image0 is
\* existingStory.image of the first lookup
updateImage(form, image0) ==
    IF form.removeImage THEN Null
    ELSE IF HasFile(form) THEN Some(processImageForDB(form.image[1]))
    ELSE image0

\* the document a form and an image make
docOf(k, imageData) ==
    [title |-> sanitized(k).title, writter |-> sanitized(k).writter,
     story_content |-> sanitized(k).story_content, image |-> imageData]

CrudIdle ==
    /\ stories = <<>> /\ nextId = 1
    /\ requests = <<>> /\ received = 0
    /\ resp = NoResp
    /\ createdFrom = <<>> /\ touched = {} /\ deleted = {}

\* no call of the rate limiter in the last step
NoCall == [ip |-> "", allowed |-> FALSE, fresh |-> FALSE, seq |-> 0, calls |-> 0,
           before |-> <<>>]

\* the parts of the state a specification does not use
SanIdle ==
    /\ sanInput = <<>>
    /\ sanOnce = <<>>
    /\ sanTwice = <<>>
    /\ sanPc = "idle"

RateIdle ==
    /\ rateLimitStore = <<>>
    /\ now = 0 /\ maxRequests = 0 /\ windowMs = 0
    /\ winStart = <<>> /\ winCalls = <<>>
    /\ lastCall = NoCall

ListIdle ==
    /\ query = [page |-> Absent, limit |-> Absent]
    /\ page = NaN /\ limit = NaN /\ skip = NaN
    /\ listPc = "idle"

InitList ==
    /\ query \in [page : QueryParams, limit : QueryParams]
    /\ page = NaN /\ limit = NaN /\ skip = NaN
    /\ listPc = "request"
    /\ SanIdle /\ RateIdle /\ CrudIdle

\* GET /api up to the store calls
ListStories ==
    /\ listPc = "request"
    /\ page' = pageOf(query)
    /\ limit' = limitOf(query)
    /\ skip' = skipOf(pageOf(query), limitOf(query))
    /\ listPc' = "computed"
    /\ UNCHANGED <<query, sanVars, rateVars, crudVars>>

NextList == ListStories

SpecList == InitList /\ [][NextList]_vars

\* the parameter has no readable number: absent, empty or not starting with one
Unparsable(param) == ~param.given \/ parseInt(param.text).nan

\* C6: for every page and limit query value the effective page is an integer
\* >= 1 and the effective page size an integer in 1..50; an absent or
\* unparsable page gives page 1, an absent or unparsable limit gives size 10.
C6_PageAndLimitClamped ==
    listPc = "computed" =>
        /\ ~page.nan /\ page.v >= 1
        /\ ~limit.nan /\ limit.v >= 1 /\ limit.v <= 50
        /\ Unparsable(query.page) => page = Num(1)
        /\ Unparsable(query.limit) => limit = Num(10)

(***************************************************************************)
(* simpleRateLimit                                                         *)
(***************************************************************************)
MaxLimit == 3       \* maxRequests is drawn from 1..MaxLimit
MaxWindow == 2      \* windowMs is drawn from 1..MaxWindow
MaxTime == 5        \* the clock stops here
MaxExtra == 2       \* calls made in one window beyond maxRequests

\* the x-forwarded-for header of a request; "" is no header
Headers == {"", "10.0.0.1"}

clientIPOf(header) == IF header = "" THEN "unknown" ELSE header

Clients == { clientIPOf(h) : h \in Headers }

InitRate ==
    /\ rateLimitStore = <<>>
    /\ now = 0
    /\ maxRequests \in 1..MaxLimit
    /\ windowMs \in 1..MaxWindow
    /\ winStart = <<>> /\ winCalls = <<>>
    /\ lastCall = NoCall
    /\ SanIdle /\ ListIdle /\ CrudIdle

\* Map.set(key, value)
MapSet(map, key, value) == [k \in DOMAIN map \cup {key} |-> IF k = key THEN value ELSE map[k]]

\* the window of the client is over, or it has none
Expired(store, clientIP, t) == clientIP \notin DOMAIN store \/ t > store[clientIP].resetTime

\* a limiter that lets one request too many through
AtLimitOffByOne(client, max) == client.count > max

\* the limit is reached
AtLimit(client, max) == client.count >= max

\* a limiter that counts the calls it rejects
rateLimitAfterCountsRejected(store, clientIP, t, max, window) ==
    IF Expired(store, clientIP, t)
    THEN MapSet(store, clientIP, [count |-> 1, resetTime |-> t + window])
    ELSE MapSet(store, clientIP, [store[clientIP] EXCEPT !.count = @ + 1])

\* the store after simpleRateLimit(req, max, window) at time t
rateLimitAfter(store, clientIP, t, max, window) ==
    IF Expired(store, clientIP, t)
    THEN MapSet(store, clientIP, [count |-> 1, resetTime |-> t + window])
    ELSE IF AtLimit(store[clientIP], max) THEN store
    ELSE MapSet(store, clientIP, [store[clientIP] EXCEPT !.count = @ + 1])

\* the value simpleRateLimit returns
simpleRateLimit(store, clientIP, t, max, window) ==
    Expired(store, clientIP, t) \/ ~AtLimit(store[clientIP], max)

\* history: winStart is the time of the call that opened the client's window,
\* winCalls the calls it made since, and lastCall the call of the last step:
\* its client, its result, whether it opened a window (fresh), its number in
\* the window (seq), the calls before it (calls) and the store before it.
\* A call opens a window when the client has none or the time has passed the
\* end of the one it had
OpensWindow(ip) == ip \notin DOMAIN winStart \/ now > winStart[ip] + windowMs

\* onRequest: one call of simpleRateLimit for a request with this header
RateLimitCall(header) ==
    LET ip == clientIPOf(header)
        opens == OpensWindow(ip)
        seq == IF opens THEN 1 ELSE winCalls[ip] + 1
    IN /\ seq <= maxRequests + MaxExtra
       /\ rateLimitStore' = rateLimitAfter(rateLimitStore, ip, now, maxRequests, windowMs)
       /\ winStart' = IF opens THEN MapSet(winStart, ip, now) ELSE winStart
       /\ winCalls' = MapSet(winCalls, ip, seq)
       /\ lastCall' = [ip |-> ip,
                       allowed |-> simpleRateLimit(rateLimitStore, ip, now, maxRequests, windowMs),
                       fresh |-> opens, seq |-> seq,
                       calls |-> IF ip \in DOMAIN winCalls THEN winCalls[ip] ELSE 0,
                       before |-> rateLimitStore]
       /\ UNCHANGED <<now, maxRequests, windowMs, sanVars, listVars, crudVars>>

\* Date.now() advances
Tick ==
    /\ now < MaxTime
    /\ now' = now + 1
    /\ lastCall' = NoCall
    /\ UNCHANGED <<rateLimitStore, maxRequests, windowMs, winStart, winCalls, sanVars, listVars, crudVars>>

NextRate == Tick \/ \E h \in Headers : RateLimitCall(h)

SpecRate == InitRate /\ [][NextRate]_vars

\* C5: in a window the first maxRequests calls of a client are allowed and
\* every later one is rejected; a call after the reset time has passed (or the
\* client's first) is allowed, with the count 1 and the reset time now + windowMs.
C5_WindowAllowsFirstN ==
    lastCall.ip # "" =>
        /\ lastCall.allowed <=> lastCall.seq <= maxRequests
        /\ lastCall.fresh =>
            /\ lastCall.allowed
            /\ rateLimitStore[lastCall.ip] = [count |-> 1, resetTime |-> now + windowMs]

\* a client that made more than maxRequests calls in a window, the later ones
\* rejected, calls after the reset time and is allowed
C5_Witness ==
    /\ lastCall.ip # "" /\ lastCall.fresh /\ lastCall.allowed
    /\ lastCall.calls > maxRequests /\ maxRequests >= 2
    /\ lastCall.before[lastCall.ip].count = maxRequests

\* the entry of the client in a store, or none
EntryOf(store, ip) == IF ip \in DOMAIN store THEN Some(store[ip]) ELSE Null

\* C13: a rejected call leaves the whole rate-limit state unchanged; every
\* identifier's count is at most maxRequests; a call for one identifier
\* changes neither the entry of another identifier nor whether it is allowed.
C13_RejectedChangesNothing ==
    /\ \A ip \in DOMAIN rateLimitStore : rateLimitStore[ip].count <= maxRequests
    /\ lastCall.ip # "" =>
        /\ ~lastCall.allowed => rateLimitStore = lastCall.before
        /\ \A other \in Clients \ {lastCall.ip} :
            /\ EntryOf(rateLimitStore, other) = EntryOf(lastCall.before, other)
            /\ simpleRateLimit(rateLimitStore, other, now, maxRequests, windowMs)
               = simpleRateLimit(lastCall.before, other, now, maxRequests, windowMs)

\* a client at its limit is rejected while another client, with an entry of
\* its own in an open window, is below the limit
C13_Witness ==
    /\ lastCall.ip # "" /\ ~lastCall.allowed
    /\ rateLimitStore[lastCall.ip].count = maxRequests
    /\ \E other \in DOMAIN rateLimitStore \ {lastCall.ip} :
        /\ now <= rateLimitStore[other].resetTime
        /\ rateLimitStore[other].count < maxRequests

(***************************************************************************)
(* The route handlers. A step is a handler's code up to and including its  *)
(* next store call; a request that has answered leaves its slot.           *)
(***************************************************************************)
InitCrud ==
    /\ stories = <<>> /\ nextId = 1
    /\ requests = [s \in Slots |-> Idle] /\ received = 0
    /\ resp = NoResp
    /\ createdFrom = <<>> /\ touched = {} /\ deleted = {}
    /\ SanIdle /\ ListIdle /\ RateIdle

History == <<createdFrom, touched, deleted>>

\* the request of slot s answers and ends
Answer(s, r) ==
    /\ resp' = r
    /\ requests' = [requests EXCEPT ![s] = Idle]

\* the request of slot s goes on to its next store call
Continue(s, r) ==
    /\ resp' = NoResp
    /\ requests' = [requests EXCEPT ![s] = r]

\* a new request takes the first free slot
FreeSlot(s) == requests[s] = Idle /\ \A t \in 1..(s - 1) : requests[t] # Idle

\* one more request is received
Receive == received < MaxRequests /\ received' = received + 1

\* the slots a new request can take: the first free one, while requests arrive
Arriving == {s \in Slots : FreeSlot(s) /\ received < MaxRequests}

\* creates in flight: each may still take an id
CreatesInFlight == Cardinality({s \in Slots : requests[s].route = "POST"})

\* POST /api: sanitize, required fields, lengths, image; then findOne is called
CreateStory(s, k) ==
    LET form == Forms[k]
    IN /\ FreeSlot(s) /\ Receive
       /\ ~form.removeImage
       /\ nextId + CreatesInFlight <= MaxIds
       /\ IF createChecks(k) # Null
          THEN Answer(s, Response("POST", "checks", BadId, Reply(400, createChecks(k)[1]),
                                  Fresh(k), Null))
          ELSE Continue(s, [Idle EXCEPT !.route = "POST", !.pc = "findOne", !.form = k,
                                  !.imageData = IF HasFile(form)
                                                THEN Some(processImageForDB(form.image[1]))
                                                ELSE Null])
       /\ UNCHANGED <<stories, nextId, History, sanVars, listVars, rateVars>>

\* POST /api: findOne({ title }) returns; 409, or save is called
CreateFindOne(s) ==
    LET q == requests[s]
        r == [q EXCEPT !.held = IF HeldBy(stories, sanitized(q.form).title) # {}
                                THEN "yes" ELSE "no"]
    IN /\ r.route = "POST" /\ r.pc = "findOne"
       /\ IF findOneTitle(stories, sanitized(r.form).title)
          THEN Answer(s, Response("POST", "findOne", BadId, Reply(409, TitleExists),
                                  r, Null))
          ELSE Continue(s, [r EXCEPT !.pc = "save"])
       /\ UNCHANGED <<stories, nextId, History, received, sanVars, listVars, rateVars>>

\* POST /api: story.save() returns or throws; 201, or the error handler's reply
CreateSave(s) ==
    LET r == requests[s]
        doc == castDoc(docOf(r.form, r.imageData))
        id == newId(nextId)
    IN /\ r.route = "POST" /\ r.pc = "save"
       /\ IF validateDoc(doc) # Null
          THEN /\ Answer(s, Failure("POST", "save", BadId,
                                    ValidationError(validateDoc(doc)[1]), r))
               /\ UNCHANGED <<stories, nextId, History>>
          ELSE /\ stories' = insertDoc(stories, id, doc)
               /\ nextId' = nextId + 1
               /\ createdFrom' = MapSet(createdFrom, id, r.form)
               /\ Answer(s, Response("POST", "save", id, Reply(201, StoryCreated),
                                     r, Some(responseStory(id, doc))))
               /\ UNCHANGED <<touched, deleted>>
       /\ UNCHANGED <<received, sanVars, listVars, rateVars>>

\* PUT /api/:id: findById, then sanitize, required fields, lengths; then the
\* title lookup is called
UpdateStory(s, id, k) ==
    LET form == Forms[k]
    IN /\ FreeSlot(s) /\ Receive
       /\ IF id = BadId
          THEN Answer(s, Failure("PUT", "findById", id, CastError, Fresh(k)))
          ELSE IF id \notin DOMAIN stories
          THEN Answer(s, Response("PUT", "findById", id, Reply(404, StoryNotFound), Fresh(k), Null))
          ELSE IF updateChecks(k) # Null
          THEN Answer(s, Response("PUT", "checks", id, Reply(400, updateChecks(k)[1]),
                                  Fresh(k), Null))
          ELSE Continue(s, [Idle EXCEPT !.route = "PUT", !.pc = "findOne", !.id = id,
                                  !.form = k, !.image0 = stories[id].image])
       /\ UNCHANGED <<stories, nextId, History, sanVars, listVars, rateVars>>

\* PUT /api/:id: the title lookup returns; 409, or the image is handled and
\* findByIdAndUpdate is called
UpdateFindOne(s) ==
    LET q == requests[s]
        r == [q EXCEPT !.held = IF HeldBy(stories, sanitized(q.form).title) \ {q.id} # {}
                                THEN "yes" ELSE "no"]
    IN /\ r.route = "PUT" /\ r.pc = "findOne"
       /\ IF findOneTitleNotId(stories, sanitized(r.form).title, r.id)
          THEN Answer(s, Response("PUT", "findOne", r.id, Reply(409, OtherTitleExists),
                                  r, Null))
          ELSE IF ~FormOf(r.form).removeImage /\ HasFile(FormOf(r.form))
                  /\ validateImageFile(FormOf(r.form).image[1]) # Null
          THEN Answer(s, Response("PUT", "image", r.id,
                                  Reply(400, validateImageFile(FormOf(r.form).image[1])[1]),
                                  r, Null))
          ELSE Continue(s, [r EXCEPT !.pc = "update",
                                     !.imageData = updateImage(FormOf(r.form), r.image0)])
       /\ UNCHANGED <<stories, nextId, History, received, sanVars, listVars, rateVars>>

\* PUT /api/:id: findByIdAndUpdate returns the new document, returns null or
\* throws; on null, updatedStory.toObject() throws
UpdateWrite(s) ==
    LET r == requests[s]
        doc == castDoc(docOf(r.form, r.imageData))
    IN /\ r.route = "PUT" /\ r.pc = "update"
       /\ IF validateDoc(doc) # Null
          THEN /\ Answer(s, Failure("PUT", "update", r.id,
                                    ValidationError(validateDoc(doc)[1]), r))
               /\ UNCHANGED <<stories, touched>>
          ELSE IF r.id \notin DOMAIN stories
          THEN /\ Answer(s, Failure("PUT", "update", r.id, TypeError, r))
               /\ UNCHANGED <<stories, touched>>
          ELSE /\ stories' = updateDoc(stories, r.id, doc)
               /\ touched' = touched \cup {r.id}
               /\ Answer(s, Response("PUT", "update", r.id, Reply(200, StoryUpdated),
                                     r, Some(responseStory(r.id, doc))))
       /\ UNCHANGED <<nextId, createdFrom, deleted, received, sanVars, listVars, rateVars>>

\* DELETE /api/:id: findById; 404, or findByIdAndDelete is called
DeleteStory(s, id) ==
    /\ FreeSlot(s) /\ Receive
    /\ IF id = BadId
       THEN Answer(s, Failure("DELETE", "findById", id, CastError, Idle))
       ELSE IF id \notin DOMAIN stories
       THEN Answer(s, Response("DELETE", "findById", id, Reply(404, StoryNotFound),
                               Idle, Null))
       ELSE Continue(s, [Idle EXCEPT !.route = "DELETE", !.pc = "delete", !.id = id])
    /\ UNCHANGED <<stories, nextId, History, sanVars, listVars, rateVars>>

\* DELETE /api/:id: findByIdAndDelete returns; 200
DeleteWrite(s) ==
    LET r == requests[s]
    IN /\ r.route = "DELETE" /\ r.pc = "delete"
       /\ stories' = deleteDoc(stories, r.id)
       /\ touched' = touched \cup {r.id}
       /\ deleted' = deleted \cup {r.id}
       /\ Answer(s, Response("DELETE", "delete", r.id, Reply(200, StoryDeleted),
                             Idle, Null))
       /\ UNCHANGED <<nextId, createdFrom, received, sanVars, listVars, rateVars>>

\* GET /api/:id: one store call
GetStory(id) ==
    /\ Receive
    /\ resp' = IF id = BadId
               THEN Failure("GET", "findById", id, CastError, Idle)
               ELSE IF id \notin DOMAIN stories
               THEN Response("GET", "findById", id, Reply(404, StoryNotFound), Idle, Null)
               ELSE Response("GET", "findById", id, Reply(200, StoryFetched), Idle,
                             Some(responseStory(id, stories[id])))
    /\ UNCHANGED <<stories, nextId, requests, History, sanVars, listVars, rateVars>>

\* GET /api/:id/image: one store call; the body is the stored image
GetImage(id) ==
    /\ Receive
    /\ resp' = IF id = BadId
               THEN Failure("IMAGE", "findById", id, CastError, Idle)
               ELSE IF id \notin DOMAIN stories \/ stories[id].image = Null
               THEN Response("IMAGE", "findById", id, Reply(404, ImageNotFound), Idle, Null)
               ELSE Response("IMAGE", "findById", id, Reply(200, <<>>), Idle,
                             stories[id].image)
    /\ UNCHANGED <<stories, nextId, requests, History, sanVars, listVars, rateVars>>

Next ==
    \/ \E s \in Arriving, k \in FormIds : CreateStory(s, k)
    \/ \E s \in Slots : CreateFindOne(s)
    \/ \E s \in Slots : CreateSave(s)
    \/ \E s \in Arriving, id \in Ids \cup {BadId}, k \in FormIds : UpdateStory(s, id, k)
    \/ \E s \in Slots : UpdateFindOne(s)
    \/ \E s \in Slots : UpdateWrite(s)
    \/ \E s \in Arriving, id \in Ids \cup {BadId} : DeleteStory(s, id)
    \/ \E s \in Slots : DeleteWrite(s)
    \/ \E id \in Ids \cup {BadId} : GetStory(id)
    \/ \E id \in Ids \cup {BadId} : GetImage(id)

Spec == InitCrud /\ [][Next]_vars

\* C1: no two stored stories have the same title.
C1_TitlesUnique ==
    \A i, j \in DOMAIN stories : i # j => stories[i].title # stories[j].title

(***************************************************************************)
(* Properties of the handlers                                              *)
(***************************************************************************)
\* the form the last response answers, and its sanitized fields
Asked == FormOf(resp.form)
Sent == sanitized(resp.form)

\* the form that created the story the last response is about
Origin == FormOf(createdFrom[resp.id])

\* a sanitized field is missing
Missing(f) == f.title = <<>> \/ f.writter = <<>> \/ f.story_content = <<>>

\* a sanitized field is longer than its bound
Oversize(f) ==
    \/ length(f.title) > MAX_TITLE_LENGTH
    \/ length(f.writter) > MAX_WRITER_LENGTH
    \/ length(f.story_content) > MAX_CONTENT_LENGTH

\* the form carries a non-empty image of a refused type or size
BadImage(form) ==
    /\ form.image # NoFile /\ form.image[1].size > 0
    /\ \/ form.image[1].type \notin {"image/jpeg", "image/png", "image/gif", "image/webp"}
       \/ form.image[1].size > MAX_DB_FILE_SIZE

\* the store accepts the document of the form: title and writer are not
\* blank after its trimming
StoreAccepts(f) == trim(f.title) # <<>> /\ trim(f.writter) # <<>>

\* the last response is of an update whose first lookup found the story
UpdateResolved == resp.route = "PUT" /\ resp.stage # "findById"

\* C2 as stated: a create request whose sanitized title is the title of a
\* story in the collection is answered 409 and leaves the collection unchanged.
C2_Original ==
    (/\ resp.route = "POST"
     /\ \E i \in DOMAIN resp.before : resp.before[i].title = Sent.title)
    => resp.status = 409 /\ stories = resp.before

\* C2, amended: a create request that passes the required-field, length and
\* image checks and whose sanitized title, trimmed as the store casts it, is
\* held by a story when its title lookup runs is answered 409 at that lookup,
\* and the collection is unchanged: same documents, same count.
C2_DuplicateAtLookup ==
    (resp.route = "POST" /\ resp.held = "yes")
    => /\ resp.status = 409 /\ resp.message = TitleExists
       /\ stories = resp.before
       /\ Cardinality(DOMAIN stories) = Cardinality(DOMAIN resp.before)

C2_Witness ==
    /\ resp.route = "POST" /\ resp.held = "yes" /\ resp.status = 409
    /\ Sent.title # trim(Sent.title)

\* the fields of the form are valid: 1..max characters after trimming
ValidText(form) ==
    /\ trim(form.title) # <<>> /\ length(trim(form.title)) <= MAX_TITLE_LENGTH
    /\ trim(form.writter) # <<>> /\ length(trim(form.writter)) <= MAX_WRITER_LENGTH
    /\ trim(form.story_content) # <<>>
    /\ length(trim(form.story_content)) <= MAX_CONTENT_LENGTH

\* the last response is a get-by-id of a story no update or delete has touched
GetOfCreated ==
    resp.route = "GET" /\ resp.id \in DOMAIN createdFrom /\ resp.id \notin touched

\* C3 as stated: a create with valid title, writer and content and a title
\* not present succeeds with 201, and a get-by-id before any update or delete
\* returns 200 with the title, writer and content that were submitted.
C3_Original ==
    /\ (/\ resp.route = "POST" /\ ValidText(Asked)
        /\ HeldBy(resp.before, Sent.title) = {})
       => resp.status = 201
    /\ GetOfCreated
       => /\ resp.status = 200
          /\ resp.data[1].title = Origin.title
          /\ resp.data[1].writter = Origin.writter
          /\ resp.data[1].story_content = Origin.story_content

\* C3, amended: a create whose sanitized fields pass the required-field and
\* length checks, whose title and writer are not blank after the store's
\* trimming, whose image is absent, empty or allowed, and whose title no story
\* holds when the title lookup runs, is answered 201 with an id the store
\* never gave before; a get-by-id of that id before any update or delete is
\* answered 200 with the sanitized title and writer, trimmed, and the
\* sanitized content.
C3_CreateThenGet ==
    /\ (/\ resp.route = "POST"
        /\ ~Missing(Sent) /\ ~Oversize(Sent) /\ StoreAccepts(Sent)
        /\ ~BadImage(Asked)
        /\ resp.held = "no")
       => /\ resp.status = 201
          /\ resp.id \in DOMAIN stories \ DOMAIN resp.before
          /\ resp.id \notin deleted
          /\ resp.data[1].id = resp.id
    /\ GetOfCreated
       => /\ resp.status = 200
          /\ resp.data[1].title = trim(sanitizeString(Origin.title))
          /\ resp.data[1].writter = trim(sanitizeString(Origin.writter))
          /\ resp.data[1].story_content = sanitizeString(Origin.story_content)

C3_Witness ==
    /\ GetOfCreated /\ resp.status = 200
    /\ resp.data[1].title # Origin.title
    /\ resp.data[1].title # sanitizeString(Origin.title)

\* C4: after a delete of an existing story answered 200, the id is in the
\* collection no more, and every get-by-id and every image fetch of it is
\* answered 404, whether or not the story had an image.
C4_DeletedStaysGone ==
    /\ deleted \cap DOMAIN stories = {}
    /\ (resp.route \in {"GET", "IMAGE"} /\ resp.id \in deleted) => resp.status = 404

C4_Witness ==
    /\ resp.route = "IMAGE" /\ resp.id \in deleted /\ resp.status = 404
    /\ HasFile(Origin)

\* C8: every stored story has a title, a writer and a content that are not
\* empty after trimming and within 200, 100 and 10,000 characters.
C8_StoredFieldsValid ==
    \A i \in DOMAIN stories :
        /\ ValidText([title |-> stories[i].title, writter |-> stories[i].writter,
                      story_content |-> stories[i].story_content])
        /\ length(stories[i].title) <= MAX_TITLE_LENGTH
        /\ length(stories[i].writter) <= MAX_WRITER_LENGTH
        /\ length(stories[i].story_content) <= MAX_CONTENT_LENGTH

C10_Original ==
    (/\ resp.route = "POST" \/ UpdateResolved
     /\ ~Missing(Sent) /\ ~Oversize(Sent)
     /\ BadImage(Asked))
    => resp.status = 400 /\ stories = resp.before

\* C10, amended: such a create is answered 400 with the image validator's
\* message; such an update of an id that resolves, when removeImage is not
\* set, is answered 409 if another story holds the title at the title lookup
\* and the same 400 otherwise; in each case the collection is unchanged.
C10_BadImageRejected ==
    (/\ resp.route = "POST" \/ (UpdateResolved /\ ~Asked.removeImage)
     /\ ~Missing(Sent) /\ ~Oversize(Sent)
     /\ BadImage(Asked))
    => /\ stories = resp.before
       /\ IF resp.held = "yes"
          THEN resp.status = 409
          ELSE /\ resp.status = 400
               /\ resp.message \in {InvalidFileType, FileTooLarge}

C10_Witness ==
    /\ UpdateResolved /\ ~Asked.removeImage /\ BadImage(Asked)
    /\ resp.status = 400 /\ resp.message = InvalidFileType

\* the class the error mapper is to tell apart: by the error, not by its text
ErrorClass(error) ==
    CASE error.name = "ValidationError" -> "validation"
      [] error.name = "CastError" -> "invalid id"
      [] OTHER -> "other"

\* C11: for every error that reaches errorHandler, the message of the response
\* never contains the text of the error, and an error that is neither a
\* validation error nor an invalid-id error is answered 500 with the generic
\* message.
C11_GenericMessage ==
    resp.error # Null
    => /\ ~includes(resp.message, resp.error[1].message)
       /\ ErrorClass(resp.error[1]) = "other"
          => resp.status = 500 /\ resp.message = InternalServerError

\* the parts of C11 that hold: an invalid id and any other error get their
\* fixed texts, and only a validation error's text is returned
C11_OnlyValidationLeaks ==
    resp.error # Null
    => /\ ErrorClass(resp.error[1]) = "invalid id"
          => resp.status = 400 /\ resp.message = InvalidIdFormat
       /\ ErrorClass(resp.error[1]) = "other"
          => resp.status = 500 /\ resp.message = InternalServerError
       /\ includes(resp.message, resp.error[1].message)
          => ErrorClass(resp.error[1]) = "validation" /\ resp.status = 400

\* the last response is of an update whose write found no story with its id
WroteToMissing ==
    resp.route = "PUT" /\ resp.stage = "update" /\ resp.id \notin DOMAIN resp.before

\* C12: an update whose id does not resolve to a stored story when it writes
\* is answered 404 and changes nothing, also when a concurrent delete removed
\* the story after the update's initial lookup; it is never answered 500 and
\* never re-creates the story.
C12_UpdateOfMissingIsNotFound ==
    WroteToMissing
    => /\ resp.status = 404
       /\ stories = resp.before /\ resp.id \notin DOMAIN stories

\* the part of C12 that holds: such an update changes nothing and does not
\* re-create the story; its answer is the error handler's, 500 or 400
C12_UpdateOfMissingKeepsStore ==
    WroteToMissing
    => /\ stories = resp.before /\ resp.id \notin DOMAIN stories
       /\ resp.id \in deleted
       /\ resp.error # Null /\ resp.status \in {400, 500}

\* the last response is of an update that wrote
Updated == resp.route = "PUT" /\ resp.stage = "update" /\ resp.status = 200

\* an image fetch answers 404 exactly when the story has no image
FetchShowsImage ==
    resp.route = "IMAGE" /\ resp.id \in DOMAIN stories
    => /\ resp.status = 404 <=> stories[resp.id].image = Null
       /\ resp.status = 200 => resp.data = stories[resp.id].image

\* C14: a successful update with removeImage=true clears the image, also when
\* a file is supplied, and a later image fetch returns 404; otherwise with a
\* non-empty valid file the image is replaced by it; otherwise the image
\* stored at the time of the write is kept, also when another update changed
\* it after this update's initial lookup.
C14_ImageChange ==
    /\ FetchShowsImage
    /\ Updated
       => stories[resp.id].image =
             IF Asked.removeImage THEN Null
             ELSE IF HasFile(Asked) THEN Some(processImageForDB(Asked.image[1]))
             ELSE resp.before[resp.id].image

\* the parts of C14 that hold: clearing, replacing, and the fetch
C14_ClearAndReplace ==
    /\ FetchShowsImage
    /\ Updated /\ Asked.removeImage => stories[resp.id].image = Null
    /\ Updated /\ ~Asked.removeImage /\ HasFile(Asked)
       => stories[resp.id].image = Some(processImageForDB(Asked.image[1]))

(***************************************************************************)
(* Inputs of the sanitizer: every concatenation of at most MaxTokens       *)
(* fragments.                                                              *)
(***************************************************************************)
MaxTokens == 4

Tokens ==
    { S(<<"<", "s", "c", "r", "i", "p", "t", ">", "<", "/", "s", "c", "r", "i", "p", "t", ">">>),
      S(<<"<", "S", "C", "R", "I", "P", "T">>),
      S(<<">">>),
      S(CloseTag),
      S(<<"<", "s", "c", "r">>),
      S(<<"i", "p", "t", ">">>),
      S(<<" ">>),
      S(<<"a">>) }

SanInputs == UNION { { Flatten(p) : p \in [1..k -> Tokens] } : k \in 0..MaxTokens }

InitSanitize ==
    /\ sanInput \in SanInputs
    /\ sanOnce = <<>>
    /\ sanTwice = <<>>
    /\ sanPc = "input"
    /\ ListIdle /\ RateIdle /\ CrudIdle

SanitizeOnce ==
    /\ sanPc = "input"
    /\ sanOnce' = sanitizeString(sanInput)
    /\ sanPc' = "once"
    /\ UNCHANGED <<sanInput, sanTwice, listVars, rateVars, crudVars>>

SanitizeTwice ==
    /\ sanPc = "once"
    /\ sanTwice' = sanitizeString(sanOnce)
    /\ sanPc' = "twice"
    /\ UNCHANGED <<sanInput, sanOnce, listVars, rateVars, crudVars>>

NextSanitize == SanitizeOnce \/ SanitizeTwice

SpecSanitize == InitSanitize /\ [][NextSanitize]_vars

\* C7: for every input text, sanitizeString(x) has no surrounding whitespace,
\* contains no <script>...</script> sequence, and sanitizing it again changes
\* nothing.
C7_SanitizeCleanIdempotent ==
    /\ sanPc \in {"once", "twice"} => ~Surrounded(sanOnce) /\ ~HasScript(sanOnce)
    /\ sanPc = "twice" => sanTwice = sanOnce

====
